---------------------------- MODULE Spec2Model ----------------------------
(***************************************************************************)
(* Model of the cucitura-check analysis API.                               *)
(*                                                                         *)
(* Two implementations of the analysis live in the repository:             *)
(*   - the self-contained route handler POST of                            *)
(*     src/src/app/api/analyze/route.ts (lines 1-468), with its own        *)
(*     normalizeUrl and runPageSpeed;                                      *)
(*   - the library pipeline analyzeSite of src/unnamed/part_000, called    *)
(*     by the two delegating route handlers (route.ts 470-533, 535-578).   *)
(*                                                                         *)
(* Strings are sequences of tokens.  A token is an indivisible piece of    *)
(* text: a name ("localhost", "http", "a"), a delimiter (":", "/", "?"),   *)
(* a blank (" ") or a port number.  The URL functions work on these        *)
(* sequences the way the code works on characters.                         *)
(***************************************************************************)
EXTENDS Integers, Sequences, FiniteSets, TLC

VARIABLES
    entry,      \* which POST handler serves the request
    key,        \* process.env.PAGESPEED_API_KEY ("" when unset)
    input,      \* the user-supplied domain/url string (token sequence)
    pc,         \* position of the handler
    url,        \* the URL the page GET is issued to
    requests,   \* log of outbound requests, in order
    fetched,    \* result of the page fetch
    psi,        \* result of runPageSpeed
    response,   \* the HTTP response of the handler
    answers,    \* what the PageSpeed server answered to each request, in order
    attempts,   \* results of the PageSpeed attempts made so far, in order
    pageAnswer, \* what the network answered to the page GET
    norm,       \* result of one application of a normalizeUrl
    norm2,      \* result of normalizing that result again
    runs        \* the activations of analyzeSite in flight together, by request

vars == <<entry, key, input, pc, url, requests, fetched, psi, response, answers, attempts,
          pageAnswer, norm, norm2, runs>>

----------------------------------------------------------------------------
(* Bounds *)

\* most blanks put before and after a generated input
MaxPad == 1
\* most tokens of the path/query suffix of a generated input
MaxSuffixLen == 2

----------------------------------------------------------------------------
(* Text *)

SP == " "

\* String.prototype.toLowerCase / the URL parser's ASCII lowercasing, per token
Lower(t) ==
    CASE t = "HTTP" -> "http"
      [] t = "LOCALHOST" -> "localhost"
      [] t = "Example.COM" -> "example.com"
      [] OTHER -> t

RECURSIVE TrimLeft(_)
TrimLeft(s) ==
    IF s # <<>> /\ Head(s) = SP THEN TrimLeft(Tail(s)) ELSE s

RECURSIVE TrimRight(_)
TrimRight(s) ==
    IF s # <<>> /\ s[Len(s)] = SP THEN TrimRight(SubSeq(s, 1, Len(s) - 1)) ELSE s

\* String.prototype.trim
Trim(s) == TrimRight(TrimLeft(s))

\* index of the first token of s that is in set D, or Len(s)+1
RECURSIVE FirstIn(_, _, _)
FirstIn(s, D, i) ==
    IF i > Len(s) \/ s[i] \in D THEN i ELSE FirstIn(s, D, i + 1)

\* percent-encoding of blanks in path and query
Encode(s) == [i \in 1..Len(s) |-> IF s[i] = SP THEN "%20" ELSE s[i]]

----------------------------------------------------------------------------
(* WHATWG URL, as used by `new URL(...)`, url.hostname and url.toString()  *)

SpecialSchemes == {"http", "https", "ftp"}
PortTokens == {"80", "443", "8080"}
Delims == {":", "/", "?", SP, "%20"}

DefaultPort(scheme) ==
    CASE scheme = "http" -> "80"
      [] scheme = "https" -> "443"
      [] OTHER -> "21"

\* host parser: lowercases, and writes an IPv4 address in its canonical form
HostCanon(h) == IF Lower(h) = "127.1" THEN "127.0.0.1" ELSE Lower(h)

BadUrl == [ok |-> FALSE, scheme |-> "", host |-> "", port |-> <<>>, path |-> <<>>, query |-> <<>>]

RECURSIVE SkipSlashes(_)
SkipSlashes(s) == IF s # <<>> /\ Head(s) = "/" THEN SkipSlashes(Tail(s)) ELSE s

\* new URL(s): the parsed URL, or ok = FALSE where the constructor throws
ParseUrl(s0) ==
    LET s == Trim(s0) IN
    IF Len(s) < 2 \/ s[1] \in Delims \/ s[1] \in PortTokens \/ s[2] # ":" THEN BadUrl
    ELSE
    LET scheme == Lower(s[1])
        rest   == SubSeq(s, 3, Len(s))
    IN
    IF scheme \notin SpecialSchemes
    THEN \* a non-special scheme: no host, an opaque path
         [ok |-> TRUE, scheme |-> scheme, host |-> "", port |-> <<>>,
          path |-> rest, query |-> <<>>]
    ELSE
    LET r    == SkipSlashes(rest)
        e    == FirstIn(r, {"/", "?"}, 1)
        auth == SubSeq(r, 1, e - 1)
        tl   == SubSeq(r, e, Len(r))
        q    == FirstIn(tl, {"?"}, 1)
        p    == SubSeq(tl, 1, q - 1)
        hostOk == /\ Len(auth) \in {1, 2, 3}
                  /\ auth[1] \notin Delims
                  /\ auth[1] \notin PortTokens
                  /\ Len(auth) >= 2 => auth[2] = ":"
                  /\ Len(auth) = 3 => auth[3] \in PortTokens
    IN
    IF ~hostOk THEN BadUrl
    ELSE [ok |-> TRUE,
          scheme |-> scheme,
          host |-> HostCanon(auth[1]),
          port |-> IF Len(auth) = 3 /\ auth[3] # DefaultPort(scheme)
                   THEN <<":", auth[3]>> ELSE <<>>,
          path |-> IF p = <<>> THEN <<"/">> ELSE Encode(p),
          query |-> Encode(SubSeq(tl, q, Len(tl)))]

\* url.toString()
Serialize(u) ==
    IF u.scheme \in SpecialSchemes
    THEN <<u.scheme, ":", "/", "/", u.host>> \o u.port \o u.path \o u.query
    ELSE <<u.scheme, ":">> \o u.path

\* the host an outbound fetch(s) connects to ("" when fetch rejects the URL)
FetchHost(s) == LET u == ParseUrl(s) IN IF u.ok THEN u.host ELSE ""

----------------------------------------------------------------------------
(* normalizeUrl, both versions *)

Https == <<"https", ":", "/", "/">>

\* /^https?:\/\//i
HasHttpPrefix(s) ==
    /\ Len(s) >= 4
    /\ Lower(s[1]) \in {"http", "https"}
    /\ s[2] = ":" /\ s[3] = "/" /\ s[4] = "/"

BlockedHosts == {"localhost", "127.0.0.1", "0.0.0.0"}

NormOk(u) == [ok |-> TRUE, err |-> "", url |-> u]
NormErr(e) == [ok |-> FALSE, err |-> e, url |-> <<>>]

\* mutant: the host check is left out
LibNormalizeUrl_NoHostCheck(in) ==
    IF in = <<>> THEN NormErr("ZodError")
    ELSE
    LET raw == Trim(in)
        withProto == IF HasHttpPrefix(raw) THEN raw ELSE Https \o raw
        u == ParseUrl(withProto)
    IN
    IF ~u.ok THEN NormErr("URL non valido. Esempio: https://miosito.com")
    ELSE NormOk(Serialize(u))

\* mutant: https:// is prepended without testing for a scheme
LibNormalizeUrl_AlwaysPrepend(in) ==
    IF in = <<>> THEN NormErr("ZodError")
    ELSE
    LET raw == Trim(in)
        withProto == Https \o raw
        u == ParseUrl(withProto)
    IN
    IF ~u.ok THEN NormErr("URL non valido. Esempio: https://miosito.com")
    ELSE IF Lower(u.host) \in BlockedHosts THEN NormErr("Dominio non consentito.")
    ELSE NormOk(Serialize(u))

\* library normalizeUrl: the URL string, or the error it throws
LibNormalizeUrl(in) ==
    IF in = <<>> THEN NormErr("ZodError")
    ELSE
    LET raw == Trim(in)
        withProto == IF HasHttpPrefix(raw) THEN raw ELSE Https \o raw
        u == ParseUrl(withProto)
    IN
    IF ~u.ok THEN NormErr("URL non valido. Esempio: https://miosito.com")
    ELSE IF Lower(u.host) \in BlockedHosts THEN NormErr("Dominio non consentito.")
    ELSE NormOk(Serialize(u))

\* route handler normalizeUrl: the string, or null
RouteNormalizeUrl(in) ==
    LET s == Trim(in) IN
    IF s = <<>> THEN NormErr("null")
    ELSE IF HasHttpPrefix(s) THEN NormOk(s)
    ELSE NormOk(Https \o s)

----------------------------------------------------------------------------
(* Numbers *)

\* an optional number is a set: {} when undefined/null, {n} otherwise
None == {}
Some(n) == {n}
Val(o) == CHOOSE n \in o : TRUE

Max(a, b) == IF a >= b THEN a ELSE b
Min(a, b) == IF a <= b THEN a ELSE b

\* A category score of the PageSpeed API is a float in [0,1]; the model holds
\* it in thousandths.  Math.round(score * 100), rounding half up, in exact
\* arithmetic.
RoundPercent(k) == (k + 5) \div 10

----------------------------------------------------------------------------
(* The PageSpeed API as seen by one request: what the server answers *)

\* error.message texts, as word sequences
MsgKeyInvalid == <<"API", "key", "not", "valid.", "Please", "pass", "a", "valid", "API", "key.">>
MsgForbidden == <<"Forbidden">>
MsgNotAuthorized == <<"The", "caller", "is", "not", "authorized">>
MsgUnauthorized == <<"Unauthorized">>
MsgQuota == <<"Quota", "exceeded">>
MsgFetchFailed == <<"fetch", "failed">>
MsgSyntax == <<"Unexpected", "token", "<", "in", "JSON">>

LowerWord(w) ==
    CASE w = "API" -> "api"
      [] w = "Forbidden" -> "forbidden"
      [] w = "Quota" -> "quota"
      [] w = "Please" -> "please"
      [] w = "The" -> "the"
      [] w = "Unauthorized" -> "unauthorized"
      [] w = "valid." -> "valid"
      [] OTHER -> w

LowerWords(m) == [i \in 1..Len(m) |-> LowerWord(m[i])]

\* p occurs in s as a contiguous run
IsInfix(p, s) ==
    \E i \in 0..(Len(s) - Len(p)) : \A j \in 1..Len(p) : s[i + j] = p[j]

\* /api key not valid|invalid api key|keyinvalid|not authorized|forbidden/i
AuthPatterns == {<<"api", "key", "not", "valid">>, <<"invalid", "api", "key">>,
                 <<"keyinvalid">>, <<"not", "authorized">>, <<"forbidden">>}

MatchesAuth(m) == \E p \in AuthPatterns : IsInfix(p, LowerWords(m))

\* net: whether fetch resolved; httpOk: r.ok; body: "json" | "unparsable";
\* msg: json.error.message (<<>> when absent); hasLh: json.lighthouseResult
\* present; perf, seo: categories.<id>.score in thousandths, or None;
\* lcp: audits["largest-contentful-paint"].numericValue, or None
PsiJson(perf, seo) ==
    [net |-> TRUE, netMsg |-> <<>>, httpOk |-> TRUE, status |-> 200, body |-> "json",
     msg |-> <<>>, perf |-> perf, seo |-> seo, lcp |-> IF perf = None THEN None ELSE Some(2500),
     lhFinalUrl |-> <<>>]

\* a successful answer whose lighthouseResult.finalUrl is set
PsiJsonWithUrl(perf, seo, u) == [PsiJson(perf, seo) EXCEPT !.lhFinalUrl = u]

\* score samples of a successful answer, in thousandths
PsiSuccesses ==
    {PsiJson(Some(905), Some(1000)), PsiJson(Some(0), None), PsiJson(None, Some(4)),
     PsiJson(None, None),
     PsiJsonWithUrl(Some(500), Some(500), <<"https", ":", "/", "/", "example.com", "/", "home">>)}

PsiHttpError(status, msg) ==
    [net |-> TRUE, netMsg |-> <<>>, httpOk |-> FALSE, status |-> status, body |-> "json",
     msg |-> msg, perf |-> None, seo |-> None, lcp |-> None,
     lhFinalUrl |-> <<>>]

PsiUnparsable(httpOk, status) ==
    [net |-> TRUE, netMsg |-> <<>>, httpOk |-> httpOk, status |-> status,
     body |-> "unparsable", msg |-> <<>>, perf |-> None, seo |-> None, lcp |-> None,
     lhFinalUrl |-> <<>>]

PsiNetError(m) ==
    [net |-> FALSE, netMsg |-> m, httpOk |-> FALSE, status |-> 0, body |-> "json",
     msg |-> <<>>, perf |-> None, seo |-> None, lcp |-> None,
     lhFinalUrl |-> <<>>]

\* `PageSpeed error (${r.status})` and `PageSpeed API error (${res.status})`
StatusText(status) ==
    CASE status = 400 -> "(400)"
      [] status = 401 -> "(401)"
      [] status = 403 -> "(403)"
      [] status = 429 -> "(429)"
      [] OTHER -> "(500)"

PsiFailures ==
    {PsiHttpError(400, MsgKeyInvalid), PsiHttpError(403, MsgForbidden),
     PsiHttpError(403, MsgNotAuthorized), PsiHttpError(401, MsgUnauthorized),
     PsiHttpError(403, <<>>), PsiHttpError(429, MsgQuota),
     PsiUnparsable(FALSE, 500), PsiUnparsable(TRUE, 200),
     PsiNetError(MsgFetchFailed), PsiNetError(<<>>)}

----------------------------------------------------------------------------
(* runPageSpeed, both versions *)

NoJson == [perf |-> None, seo |-> None, lcp |-> None, lhFinalUrl |-> <<>>]

NoScores == [perf |-> None, seo |-> None]

\* route handler: attempt(maybeKey), given the server's answer
Attempt(resp) ==
    IF ~resp.net
    THEN [ok |-> FALSE, hasJson |-> FALSE, json |-> NoJson,
          error |-> IF resp.netMsg # <<>> THEN resp.netMsg ELSE <<"Errore", "PageSpeed">>]
    ELSE IF resp.body = "unparsable"
    THEN [ok |-> FALSE, hasJson |-> FALSE, json |-> NoJson, error |-> MsgSyntax]
    ELSE IF ~resp.httpOk
    THEN [ok |-> FALSE, hasJson |-> TRUE, json |-> NoJson,
          error |-> IF resp.msg # <<>> THEN resp.msg
                    ELSE <<"PageSpeed", "error", StatusText(resp.status)>>]
    ELSE [ok |-> TRUE, hasJson |-> TRUE, json |-> [perf |-> resp.perf, seo |-> resp.seo, lcp |-> resp.lcp,
                   lhFinalUrl |-> resp.lhFinalUrl],
          error |-> <<>>]

\* mutant: the retry is made whatever the failure message
ShouldRetry_AnyFailure(first, k) == ~first.ok /\ k # ""

\* route handler: !first.ok && key && /.../i.test(first.error || "")
ShouldRetry(first, k) == ~first.ok /\ k # "" /\ MatchesAuth(first.error)

\* mutant: the first result is returned even when the retry succeeded
RetryResult_First(first, second) == first

\* mutant: the result of the retry is returned whatever it is
RetryResult_Last(first, second) == second

\* route handler: if (second.ok) return second; return first;
RetryResult(first, second) == IF second.ok THEN second ELSE first

\* mutant: the error message is lost
LibRunPageSpeed_EmptyError(resp) ==
    IF ~resp.net \/ ~resp.httpOk \/ resp.body = "unparsable"
    THEN [hasScores |-> FALSE, scores |-> NoScores, lcpMs |-> None, hasError |-> TRUE, error |-> <<>>]
    ELSE [hasScores |-> TRUE,
          scores |-> [perf |-> Some(RoundPercent(IF resp.perf = None THEN 0 ELSE Val(resp.perf))),
                      seo |-> Some(RoundPercent(IF resp.seo = None THEN 0 ELSE Val(resp.seo)))],
          lcpMs |-> resp.lcp, hasError |-> FALSE, error |-> <<>>]

\* library: runPageSpeed inside analyzeSite's try/catch; a throw becomes
\* psi = { error: String(e?.message || e) }
LibRunPageSpeed(resp) ==
    IF ~resp.net
    THEN [hasScores |-> FALSE, scores |-> NoScores, lcpMs |-> None, hasError |-> TRUE,
          error |-> IF resp.netMsg # <<>> THEN resp.netMsg ELSE <<"TypeError">>]
    ELSE IF ~resp.httpOk
    THEN [hasScores |-> FALSE, scores |-> NoScores, lcpMs |-> None, hasError |-> TRUE,
          error |-> <<"PageSpeed", "API", "error", StatusText(resp.status)>>]
    ELSE IF resp.body = "unparsable"
    THEN [hasScores |-> FALSE, scores |-> NoScores, lcpMs |-> None, hasError |-> TRUE, error |-> MsgSyntax]
    ELSE [hasScores |-> TRUE,
          scores |-> [perf |-> Some(RoundPercent(IF resp.perf = None THEN 0 ELSE Val(resp.perf))),
                      seo |-> Some(RoundPercent(IF resp.seo = None THEN 0 ELSE Val(resp.seo)))],
          lcpMs |-> resp.lcp, hasError |-> FALSE, error |-> <<>>]

----------------------------------------------------------------------------
(* The fetched page.  A page is what the extractors find in its markup:    *)
(*   tLen, dLen  trimmed length of the <title> text / meta description     *)
(*   h1          number of <h1> elements                                   *)
(*   canonical   a canonical link with a non-empty href is present         *)
(*   noindex     the robots meta content contains "noindex"                *)
(*   og          og:title, og:description and og:image are all present     *)
(*   trust       the trust categories a link of the page matches           *)
(*   cta         a call-to-action text is present                          *)

UnknownPlatform == "Sconosciuta/Custom"

\* h.includes(s), h the lowercased markup: page.markers are the platform
\* fingerprints present in the markup; a fingerprint carries its substrings
MarkerParts(m) == IF m \in {"cdn.shopify.com", "x-shopify"} THEN {m, "shopify"} ELSE {m}

Includes(page, s) == \E m \in page.markers : s \in MarkerParts(m)

\* library detectPlatform
LibDetectPlatform(page) ==
    IF Includes(page, "cdn.shopify.com") \/ Includes(page, "x-shopify") THEN "Shopify"
    ELSE IF Includes(page, "woocommerce") \/ Includes(page, "wp-content") THEN "WooCommerce/WordPress"
    ELSE IF Includes(page, "magento") THEN "Magento"
    ELSE IF Includes(page, "prestashop") THEN "PrestaShop"
    ELSE IF Includes(page, "bigcommerce") THEN "BigCommerce"
    ELSE UnknownPlatform

\* route detectPlatform
RouteDetectPlatform(page) ==
    IF Includes(page, "cdn.shopify.com") \/ Includes(page, "shopify") THEN "Shopify"
    ELSE IF Includes(page, "wp-content") \/ Includes(page, "wordpress") THEN "WordPress"
    ELSE UnknownPlatform

TrustCategories == {"contact", "shipping", "returns", "privacy", "terms", "faq"}

Issue(k, sev, text, n) == [key |-> k, severity |-> sev, fix |-> [text |-> text, n |-> n]]

SeoChecks_Unconditional(page) ==
    (IF page.tLen = 0
       THEN <<Issue("seo.title.missing", "high", "Aggiungi un <title> unico per la homepage.", 0)>>
     ELSE IF page.tLen < 25 \/ page.tLen > 65
       THEN <<Issue("seo.title.length", "medium", "Ottimizza il title (attuale n caratteri).", page.tLen)>>
     ELSE <<>>)
    \o
    (IF page.dLen = 0
       THEN <<Issue("seo.metadesc.missing", "high", "Aggiungi meta description per aumentare CTR su Google.", 0)>>
     ELSE <<>>)
    \o
    (IF page.dLen < 70 \/ page.dLen > 170
       THEN <<Issue("seo.metadesc.length", "medium", "Ottimizza la description (attuale n caratteri).", page.dLen)>>
     ELSE <<>>)
    \o
    (IF page.h1 = 0
       THEN <<Issue("seo.h1.missing", "high", "Inserisci un H1 chiaro (proposta di valore).", 0)>>
     ELSE IF page.h1 > 1
       THEN <<Issue("seo.h1.multiple", "low", "Mantieni 1 solo H1 principale per pagina.", 0)>>
     ELSE <<>>)
    \o
    (IF ~page.canonical
       THEN <<Issue("seo.canonical.missing", "low", "Imposta canonical per evitare duplicazioni.", 0)>>
     ELSE <<>>)
    \o
    (IF page.noindex
       THEN <<Issue("seo.noindex", "critical", "Rimuovi noindex dalla homepage (se non voluto).", 0)>>
     ELSE <<>>)
    \o
    (IF ~page.og
       THEN <<Issue("seo.opengraph.incomplete", "low", "Completa OpenGraph (og:title/og:description/og:image) per anteprime social.", 0)>>
     ELSE <<>>)

\* library seoChecks(...).issues
SeoChecks(page) ==
    (IF page.tLen = 0
       THEN <<Issue("seo.title.missing", "high", "Aggiungi un <title> unico per la homepage.", 0)>>
     ELSE IF page.tLen < 25 \/ page.tLen > 65
       THEN <<Issue("seo.title.length", "medium", "Ottimizza il title (attuale n caratteri).", page.tLen)>>
     ELSE <<>>)
    \o
    (IF page.dLen = 0
       THEN <<Issue("seo.metadesc.missing", "high", "Aggiungi meta description per aumentare CTR su Google.", 0)>>
     ELSE IF page.dLen < 70 \/ page.dLen > 170
       THEN <<Issue("seo.metadesc.length", "medium", "Ottimizza la description (attuale n caratteri).", page.dLen)>>
     ELSE <<>>)
    \o
    (IF page.h1 = 0
       THEN <<Issue("seo.h1.missing", "high", "Inserisci un H1 chiaro (proposta di valore).", 0)>>
     ELSE IF page.h1 > 1
       THEN <<Issue("seo.h1.multiple", "low", "Mantieni 1 solo H1 principale per pagina.", 0)>>
     ELSE <<>>)
    \o
    (IF ~page.canonical
       THEN <<Issue("seo.canonical.missing", "low", "Imposta canonical per evitare duplicazioni.", 0)>>
     ELSE <<>>)
    \o
    (IF page.noindex
       THEN <<Issue("seo.noindex", "critical", "Rimuovi noindex dalla homepage (se non voluto).", 0)>>
     ELSE <<>>)
    \o
    (IF ~page.og
       THEN <<Issue("seo.opengraph.incomplete", "low", "Completa OpenGraph (og:title/og:description/og:image) per anteprime social.", 0)>>
     ELSE <<>>)

TrustIssues_ContactOnly(page) ==
    IF "contact" \notin page.trust
    THEN <<Issue("trust.contact.missing", "high", "Rendi visibili Contatti/Assistenza (header o footer).", 0)>>
    ELSE <<>>

\* analyzeSite: trustIssues
TrustIssues(page) ==
    (IF "contact" \notin page.trust
       THEN <<Issue("trust.contact.missing", "high", "Rendi visibili Contatti/Assistenza (header o footer).", 0)>>
     ELSE <<>>)
    \o
    (IF "shipping" \notin page.trust
       THEN <<Issue("trust.shipping.missing", "high", "Aggiungi pagina Spedizioni e linkala nel footer.", 0)>>
     ELSE <<>>)
    \o
    (IF "returns" \notin page.trust
       THEN <<Issue("trust.returns.missing", "high", "Aggiungi pagina Resi/Cambi vicino alle CTA prodotto.", 0)>>
     ELSE <<>>)
    \o
    (IF "privacy" \notin page.trust
       THEN <<Issue("trust.privacy.missing", "medium", "Linka Privacy/Cookie policy nel footer.", 0)>>
     ELSE <<>>)
    \o
    (IF "terms" \notin page.trust
       THEN <<Issue("trust.terms.missing", "low", "Aggiungi Termini e Condizioni nel footer.", 0)>>
     ELSE <<>>)

UxIssues_Inverted(page) ==
    IF page.cta
    THEN <<Issue("ux.cta.unclear", "medium", "Inserisci una CTA primaria chiara sopra la piega (es. 'Scopri i prodotti').", 0)>>
    ELSE <<>>

\* analyzeSite: uxIssues
UxIssues(page) ==
    IF ~page.cta
    THEN <<Issue("ux.cta.unclear", "medium", "Inserisci una CTA primaria chiara sopra la piega (es. 'Scopri i prodotti').", 0)>>
    ELSE <<>>

Penalty_LowAsMedium(sev) ==
    CASE sev = "critical" -> 25
      [] sev = "high" -> 15
      [] OTHER -> 8

\* library scoreFromIssues
Penalty(sev) ==
    CASE sev = "critical" -> 25
      [] sev = "high" -> 15
      [] sev = "medium" -> 8
      [] sev = "low" -> 3
      [] OTHER -> 0

RECURSIVE PenaltySum(_)
PenaltySum(issues) ==
    IF issues = <<>> THEN 0 ELSE Penalty(Head(issues).severity) + PenaltySum(Tail(issues))

ScoreFromIssues(issues) == Max(0, Min(100, 100 - PenaltySum(issues)))

\* library severityRank
SeverityRank(sev) ==
    CASE sev = "critical" -> 0
      [] sev = "high" -> 1
      [] sev = "medium" -> 2
      [] sev = "low" -> 3
      [] OTHER -> 9

\* Array.prototype.sort with the comparator rank(a) - rank(b): a stable sort.
\* Inserts x after the last element whose rank is not greater than x's.
RECURSIVE InsertByRank(_, _)
InsertByRank(sorted, x) ==
    IF sorted = <<>> THEN <<x>>
    ELSE IF SeverityRank(sorted[Len(sorted)].severity) <= SeverityRank(x.severity)
    THEN Append(sorted, x)
    ELSE Append(InsertByRank(SubSeq(sorted, 1, Len(sorted) - 1), x), sorted[Len(sorted)])

RECURSIVE SortByRank(_)
SortByRank(issues) ==
    IF issues = <<>> THEN <<>>
    ELSE InsertByRank(SortByRank(SubSeq(issues, 1, Len(issues) - 1)), issues[Len(issues)])

\* mutant: the issues are concatenated with the trust issues first, then sorted
LibIssues_TrustFirst(page) == SortByRank(TrustIssues(page) \o SeoChecks(page) \o UxIssues(page))

\* mutant: the SEO issues are collected twice
LibIssues_SeoTwice(page) ==
    SortByRank(SeoChecks(page) \o SeoChecks(page) \o TrustIssues(page) \o UxIssues(page))

\* analyzeSite: [...seo.issues, ...trustIssues, ...uxIssues].sort(...)
LibIssues(page) == SortByRank(SeoChecks(page) \o TrustIssues(page) \o UxIssues(page))

\* the elements of s that satisfy Keep, in order
RECURSIVE SelectSev(_, _)
SelectSev(s, sevs) ==
    IF s = <<>> THEN <<>>
    ELSE IF Head(s).severity \in sevs THEN <<Head(s)>> \o SelectSev(Tail(s), sevs)
    ELSE SelectSev(Tail(s), sevs)

Fixes(s) == [i \in 1..Len(s) |-> s[i].fix]

\* analyzeSite: issues.filter(critical|high|medium).slice(0, 7).map(fix)
LibQuickWins(issues) ==
    LET f == SelectSev(issues, {"critical", "high", "medium"})
    IN Fixes(SubSeq(f, 1, Min(7, Len(f))))

\* mutant: the weights do not add up to 1
LibTotalWithPerf_BadWeights(perf, seo, ux, trust) ==
    (35 * perf + 35 * ux + 20 * seo + 15 * trust + 50) \div 100

\* Math.round(0.35*perf + 0.3*ux + 0.2*seo + 0.15*trust), in exact arithmetic
LibTotalWithPerf(perf, seo, ux, trust) == (35 * perf + 30 * ux + 20 * seo + 15 * trust + 50) \div 100

\* Math.round(0.4*seo + 0.35*ux + 0.25*trust), in exact arithmetic
LibTotalNoPerf(seo, ux, trust) == (40 * seo + 35 * ux + 25 * trust + 50) \div 100

\* analyzeSite, from the fetch result on: the report it returns
LibReport(in, f, p) ==
    LET page == f.page
        trustScore == ScoreFromIssues(TrustIssues(page))
        uxScore == ScoreFromIssues(UxIssues(page))
        perfScore == IF p.hasScores THEN p.scores.perf ELSE None
        seoScore == IF p.hasScores /\ p.scores.seo # None THEN Val(p.scores.seo)
                    ELSE ScoreFromIssues(SeoChecks(page))
        total == IF perfScore # None
                 THEN LibTotalWithPerf(Val(perfScore), seoScore, uxScore, trustScore)
                 ELSE LibTotalNoPerf(seoScore, uxScore, trustScore)
        issues == LibIssues(page)
    IN [kind |-> "report", status |-> 200, by |-> "lib",
        input |-> in, finalUrl |-> f.finalUrl, httpStatus |-> Some(f.status),
        platform |-> LibDetectPlatform(page),
        scores |-> [total |-> Some(total), performance |-> perfScore, seo |-> Some(seoScore),
                    ux |-> Some(uxScore), trust |-> Some(trustScore)],
        pagespeed |-> [scores |-> p.scores, lcpMs |-> p.lcpMs,
                       hasError |-> p.hasError, error |-> p.error],
        trust |-> page.trust,
        issues |-> issues,
        quickWins |-> LibQuickWins(issues)]

----------------------------------------------------------------------------
(* The route handler's report (route.ts 255-461) *)

\* computeTrustScore
ComputeTrustScore(trust) == Max(0, Min(100, IF "shipping" \notin trust THEN 100 - 15 ELSE 100))

\* weightedTotal: Math.round(0.35*perf + 0.25*seo + 0.2*ux + 0.2*trust), exact
WeightedTotal(perf, seo, ux, trust) == (35 * perf + 25 * seo + 20 * ux + 20 * trust + 50) \div 100

\* the issues array of the route handler, in push order (it is not sorted)
RouteIssues(page) ==
    (IF "shipping" \notin page.trust
       THEN <<Issue("trust.shipping.missing", "high", "Aggiungi una pagina Spedizioni e linkala nel footer.", 0)>>
     ELSE <<>>)
    \o
    (IF page.tLen > 0 /\ page.tLen < 25
       THEN <<Issue("seo.title.length", "medium", "Titolo pagina troppo corto (attuale n caratteri).", page.tLen)>>
     ELSE <<>>)
    \o
    (IF page.dLen > 0 /\ (page.dLen < 70 \/ page.dLen > 160)
       THEN <<Issue("seo.metadesc.length", "medium", "Descrizione Google non ottimale (attuale n caratteri).", page.dLen)>>
     ELSE <<>>)
    \o
    (IF page.h1 > 1
       THEN <<Issue("seo.h1.multiple", "low", "Troppi titoli principali (H1): mantieni 1 solo H1 per pagina.", 0)>>
     ELSE <<>>)
    \o
    (IF ~page.canonical
       THEN <<Issue("seo.canonical.missing", "low", "Manca la canonical (utile per evitare duplicazioni).", 0)>>
     ELSE <<>>)
    \o
    (IF ~page.cta
       THEN <<Issue("ux.cta.unclear", "medium", "CTA poco chiara: aggiungi un bottone principale sopra la piega.", 0)>>
     ELSE <<>>)

\* issues.slice().sort(by severityRank high < medium < low).slice(0, 3).map(fix)
RouteQuickWins(issues) ==
    LET sorted == SortByRank(issues)
    IN Fixes(SubSeq(sorted, 1, Min(3, Len(sorted))))

\* score(id): typeof s === "number" ? Math.round(s * 100) : undefined
RouteScore(s) == IF s = None THEN None ELSE Some(RoundPercent(Val(s)))

\* POST of the route handler, from the runPageSpeed result on
RouteReport(in, f, ps) ==
    LET page == f.page
        hasJson == ps.ok
        perf == IF hasJson THEN RouteScore(ps.json.perf) ELSE None
        seoScore == IF hasJson THEN RouteScore(ps.json.seo) ELSE None
        ux == IF page.cta THEN 100 ELSE 92
        trustScore == ComputeTrustScore(page.trust)
        total == IF perf # None /\ seoScore # None
                 THEN Some(WeightedTotal(Val(perf), Val(seoScore), ux, trustScore))
                 ELSE None
        issues == RouteIssues(page)
        hasError == ~ps.ok /\ ps.error # <<>>
    IN [kind |-> "report", status |-> 200, by |-> "route",
        input |-> in,
        finalUrl |-> IF hasJson /\ ps.json.lhFinalUrl # <<>> THEN ps.json.lhFinalUrl
                     ELSE f.finalUrl,
        httpStatus |-> f.status,
        platform |-> IF f.kind = "ok" THEN RouteDetectPlatform(page) ELSE UnknownPlatform,
        scores |-> [total |-> total, performance |-> perf, seo |-> seoScore,
                    ux |-> Some(ux), trust |-> Some(trustScore)],
        pagespeed |-> [scores |-> [perf |-> perf, seo |-> seoScore],
                       lcpMs |-> IF hasJson THEN ps.json.lcp ELSE None,
                       hasError |-> hasError,
                       error |-> IF hasError THEN ps.error ELSE <<>>],
        trust |-> page.trust,
        issues |-> issues,
        quickWins |-> RouteQuickWins(issues)]

ErrorResponse(status, message) == [kind |-> "error", status |-> status, error |-> message]

----------------------------------------------------------------------------
(* Generated inputs *)

Pad(n) == [i \in 1..n |-> SP]

Prefixes == {<<>>, <<"http", ":", "/", "/">>, Https, <<"HTTP", ":", "/", "/">>,
             <<"ftp", ":", "/", "/">>, <<"http", ":", "/">>, <<"/">>}

HostParts == {<<>>, <<"localhost">>, <<"LOCALHOST">>, <<"127.0.0.1">>, <<"127.1">>,
              <<"0.0.0.0">>, <<"example.com">>, <<"Example.COM">>,
              <<"example.com", ":", "8080">>, <<"localhost", ":", "443">>}

SuffixTokens == {"/", "?", SP, "a"}

RECURSIVE SeqsUpTo(_, _)
SeqsUpTo(S, n) ==
    IF n = 0 THEN {<<>>}
    ELSE LET shorter == SeqsUpTo(S, n - 1)
         IN shorter \cup {Append(s, t) : s \in shorter, t \in S}

\* a suffix is empty or starts at a delimiter, so that it never extends the host name
Suffixes == {s \in SeqsUpTo(SuffixTokens, MaxSuffixLen) : s = <<>> \/ s[1] # "a"}

NormInputs ==
    {Pad(l) \o pre \o h \o suf \o Pad(r) :
        l \in 0..MaxPad, r \in 0..MaxPad, pre \in Prefixes, h \in HostParts, suf \in Suffixes}

----------------------------------------------------------------------------
(* Specification of the normalizers alone *)

NoNorm == [fn |-> "none", ok |-> FALSE, err |-> "", url |-> <<>>]

Tag(fn, r) == [fn |-> fn, ok |-> r.ok, err |-> r.err, url |-> r.url]

NoResponse == [kind |-> "none"]
NoFetch == [kind |-> "none"]
NoAnswer == [kind |-> "none"]
NoRuns == <<>>
NoPsi == [kind |-> "none"]

InitNorm ==
    /\ input \in NormInputs
    /\ pc = "start"
    /\ norm = NoNorm
    /\ norm2 = NoNorm
    /\ runs = NoRuns
    /\ entry = "none"
    /\ key = <<>>
    /\ url = <<>>
    /\ requests = <<>>
    /\ fetched = NoFetch
    /\ psi = NoPsi
    /\ response = NoResponse
    /\ answers = <<>>
    /\ attempts = <<>>
    /\ pageAnswer = NoAnswer

pipelineVars == <<entry, key, url, requests, fetched, psi, response, answers, attempts, pageAnswer,
                  runs>>

ApplyLibNormalize ==
    /\ pc = "start"
    /\ norm' = Tag("lib", LibNormalizeUrl(input))
    /\ pc' = "once"
    /\ UNCHANGED <<input, norm2, pipelineVars>>

ApplyRouteNormalize ==
    /\ pc = "start"
    /\ norm' = Tag("route", RouteNormalizeUrl(input))
    /\ pc' = "once"
    /\ UNCHANGED <<input, norm2, pipelineVars>>

\* normalize(normalize(x)), with the same function
Renormalize ==
    /\ pc = "once"
    /\ norm.ok
    /\ norm2' = Tag(norm.fn, IF norm.fn = "lib" THEN LibNormalizeUrl(norm.url)
                                                 ELSE RouteNormalizeUrl(norm.url))
    /\ pc' = "twice"
    /\ UNCHANGED <<input, norm, pipelineVars>>

NextNorm == ApplyLibNormalize \/ ApplyRouteNormalize \/ Renormalize

SpecNorm == InitNorm /\ [][NextNorm]_vars

----------------------------------------------------------------------------
(* The request pipeline *)

\* "route":  POST of route.ts 219-468, the self-contained analysis
\* "strict": POST of route.ts 492-533, validates the URL, calls analyzeSite, 500 on a throw
\* "plain":  POST of route.ts 560-578, calls analyzeSite, 400 on a throw
Entries == {"route", "strict", "plain"}
LibEntries == {"strict", "plain"}

Keys == {"", "AIzaKEY"}

PipelineInputs ==
    {<<>>, <<SP>>,
     <<"example.com">>,
     <<"https", ":", "/", "/", "Example.COM", "/", "a">>,
     <<"example.com", SP, "a">>,
     <<"ftp", ":", "/", "/", "example.com">>,
     <<"localhost">>,
     <<"HTTP", ":", "/", "/", "LOCALHOST", "/", "a">>,
     <<"127.0.0.1", "?", "a">>,
     <<"http", ":", "/", "/", "0.0.0.0", ":", "8080", "/">>}

EmptyPage ==
    [tLen |-> 0, dLen |-> 0, h1 |-> 0, canonical |-> FALSE, noindex |-> FALSE, og |-> FALSE,
     trust |-> {}, cta |-> FALSE, markers |-> {}]

GoodPage ==
    [tLen |-> 45, dLen |-> 120, h1 |-> 1, canonical |-> TRUE, noindex |-> FALSE, og |-> TRUE,
     trust |-> TrustCategories, cta |-> TRUE, markers |-> {"cdn.shopify.com"}]

MixedPage ==
    [tLen |-> 10, dLen |-> 200, h1 |-> 2, canonical |-> FALSE, noindex |-> TRUE, og |-> FALSE,
     trust |-> {"contact", "privacy"}, cta |-> FALSE, markers |-> {"wp-content", "magento"}]

SamplePages == {EmptyPage, GoodPage, MixedPage}

ContentTypes == {"text/html; charset=utf-8", "application/json", ""}

IsHtml_Any(ct) == TRUE

\* ct.includes("text/html")
IsHtml(ct) == ct \in {"text/html", "text/html; charset=utf-8"}

RedirectTarget == <<"https", ":", "/", "/", "www.example.com", "/">>

\* t.slice(0, 2_000_000): the most characters of markup the route handler keeps
BodyCeiling == 2000000

\* lengths of the body of the page answer, in characters: a small page, one
\* at the ceiling and one beyond it
BodyLens == {1000, BodyCeiling, BodyCeiling + 1}

\* html = t.slice(0, 2_000_000) in the route handler
RouteHtmlLen(n) == Min(n, BodyCeiling)

\* html = await res.text() in fetchHtml
LibHtmlLen(n) == n

\* what the network answers to the page GET; page is what the extractors
\* find in the markup handed to them, bodyLen the length of the whole body
FetchOutcomes ==
    {[kind |-> "neterr", status |-> 0, ct |-> "", redirected |-> FALSE, page |-> EmptyPage,
      bodyLen |-> 0]}
    \cup
    [kind : {"ok"}, status : {200, 404}, ct : ContentTypes,
     redirected : BOOLEAN, page : SamplePages, bodyLen : BodyLens]
    \cup
    [kind : {"bodyfail"}, status : {200, 404}, ct : ContentTypes,
     redirected : BOOLEAN, page : SamplePages, bodyLen : {0}]

\* res.url: the URL of the response, after redirects
ResponseUrl(u, out) == IF out.redirected THEN RedirectTarget ELSE Serialize(ParseUrl(u))

PageReq(u) == [kind |-> "page", url |-> u, host |-> FetchHost(u), key |-> ""]
PsiReq(u, k) == [kind |-> "psi", url |-> u, host |-> "www.googleapis.com", key |-> k]

PsiResponses == PsiSuccesses \cup PsiFailures

Init ==
    /\ entry \in Entries
    /\ key \in Keys
    /\ input \in PipelineInputs
    /\ pc = "start"
    /\ url = <<>>
    /\ requests = <<>>
    /\ fetched = NoFetch
    /\ psi = NoPsi
    /\ response = NoResponse
    /\ answers = <<>>
    /\ attempts = <<>>
    /\ pageAnswer = NoAnswer
    /\ norm = NoNorm
    /\ norm2 = NoNorm
    /\ runs = NoRuns

\* ---- the route handler ----

\* POST (route.ts 219-244): normalizes and issues the page GET
POST_Start ==
    /\ pc = "start"
    /\ entry = "route"
    /\ LET n == RouteNormalizeUrl(input) IN
       IF ~n.ok
       THEN /\ response' = ErrorResponse(400, "Missing domain/url")
            /\ pc' = "done"
            /\ UNCHANGED <<url, requests>>
       ELSE /\ url' = n.url
            \* fetch rejects a URL it cannot parse without sending anything
            /\ requests' = IF ParseUrl(n.url).ok THEN Append(requests, PageReq(n.url))
                           ELSE requests
            /\ pc' = "fetching"
            /\ UNCHANGED response
    /\ UNCHANGED <<entry, key, input, fetched, psi, answers, attempts, pageAnswer, norm, norm2, runs>>

\* the url runPageSpeed is called with: the page fetch's final URL
\* (route.ts 258 `finalUrl || inputUrl`, library 199 `finalUrl`)
PsiTarget(u, f) == f.finalUrl

\* the route handler's view of the page fetch (route.ts 236-253)
RouteFetched(u, out) ==
    IF out.kind = "ok"
    THEN [kind |-> "ok", page |-> out.page, finalUrl |-> ResponseUrl(u, out),
          status |-> Some(out.status), htmlLen |-> RouteHtmlLen(out.bodyLen)]
    ELSE IF out.kind = "bodyfail"
    THEN \* htmlRes.text() throws: the catch resets finalUrl, httpStatus stays
         [kind |-> "failed", page |-> EmptyPage, finalUrl |-> u, status |-> Some(out.status),
          htmlLen |-> 0]
    ELSE [kind |-> "failed", page |-> EmptyPage, finalUrl |-> u, status |-> None, htmlLen |-> 0]

\* POST (route.ts 245-258) and runPageSpeed (178-204): the page answer
\* arrives and the first PageSpeed request is sent, with the key if there is one
POST_Fetched ==
    /\ pc = "fetching"
    /\ entry = "route"
    /\ \E out \in FetchOutcomes :
         /\ (~ParseUrl(url).ok) => out.kind = "neterr"
         /\ pageAnswer' = out
         /\ fetched' = RouteFetched(url, out)
         /\ requests' = Append(requests, PsiReq(PsiTarget(url, fetched'), key))
    /\ pc' = "psi1"
    /\ UNCHANGED <<entry, key, input, url, psi, response, answers, attempts, norm, norm2, runs>>

\* runPageSpeed (204-216): the first attempt ends
RunPageSpeed_First ==
    /\ pc = "psi1"
    /\ entry = "route"
    /\ \E resp \in PsiResponses :
         LET first == Attempt(resp) IN
         /\ answers' = Append(answers, resp)
         /\ attempts' = Append(attempts, first)
         /\ psi' = first
         /\ IF ShouldRetry(first, key)
            THEN /\ requests' = Append(requests, PsiReq(PsiTarget(url, fetched), ""))
                 /\ pc' = "psi2"
                 /\ UNCHANGED response
            ELSE /\ response' = RouteReport(url, fetched, first)
                 /\ pc' = "done"
                 /\ UNCHANGED requests
    /\ UNCHANGED <<entry, key, input, url, fetched, pageAnswer, norm, norm2, runs>>

\* runPageSpeed (211-213): the key-less attempt ends
RunPageSpeed_Second ==
    /\ pc = "psi2"
    /\ entry = "route"
    /\ \E resp \in PsiResponses :
         LET second == Attempt(resp) IN
         /\ answers' = Append(answers, resp)
         /\ attempts' = Append(attempts, second)
         /\ psi' = RetryResult(psi, second)
         /\ response' = RouteReport(url, fetched, psi')
    /\ pc' = "done"
    /\ UNCHANGED <<entry, key, input, url, requests, fetched, pageAnswer, norm, norm2, runs>>

\* ---- the delegating handlers and analyzeSite ----

ThrowStatus_Success(e) == IF e = "strict" THEN 200 ELSE 400

\* the status the handler answers with when analyzeSite throws
ThrowStatus(e) == IF e = "strict" THEN 500 ELSE 400

\* the argument the handler passes to analyzeSite
LibArg(e, in) == IF e = "strict" THEN Serialize(ParseUrl(Trim(in))) ELSE in

\* analyzeSite (175-178): normalizeUrl, then fetchHtml issues the page GET
AnalyzeSite_Start(arg) ==
    LET n == LibNormalizeUrl(arg) IN
    IF ~n.ok
    THEN /\ response' = ErrorResponse(ThrowStatus(entry), n.err)
         /\ pc' = "done"
         /\ UNCHANGED <<url, requests>>
    ELSE /\ url' = n.url
         /\ requests' = Append(requests, PageReq(n.url))
         /\ pc' = "fetching"
         /\ UNCHANGED response

\* POST (route.ts 492-518)
POST_Strict_Start ==
    /\ pc = "start"
    /\ entry = "strict"
    /\ LET domain == Trim(input)
           u == ParseUrl(domain)
       IN
       IF domain = <<>>
       THEN /\ response' = ErrorResponse(400, "Missing 'domain' in request body")
            /\ pc' = "done"
            /\ UNCHANGED <<url, requests>>
       ELSE IF ~u.ok \/ u.scheme \notin {"http", "https"}
       THEN /\ response' = ErrorResponse(400, "Invalid URL. Use a full URL like https://example.com")
            /\ pc' = "done"
            /\ UNCHANGED <<url, requests>>
       ELSE AnalyzeSite_Start(LibArg(entry, input))
    /\ UNCHANGED <<entry, key, input, fetched, psi, answers, attempts, pageAnswer, norm, norm2, runs>>

\* POST (route.ts 560-566)
POST_Plain_Start ==
    /\ pc = "start"
    /\ entry = "plain"
    /\ AnalyzeSite_Start(LibArg(entry, input))
    /\ UNCHANGED <<entry, key, input, fetched, psi, answers, attempts, pageAnswer, norm, norm2, runs>>

\* fetchHtml (28-45) answers; analyzeSite extracts (179-195) and runPageSpeed
\* (143-153) sends its only request, with the key if there is one
FetchHtml_Responds ==
    /\ pc = "fetching"
    /\ entry \in LibEntries
    /\ \E out \in FetchOutcomes :
         /\ pageAnswer' = out
         /\ IF out.kind = "neterr"
            THEN /\ response' = ErrorResponse(ThrowStatus(entry), "fetch failed")
                 /\ pc' = "done"
                 /\ UNCHANGED <<fetched, requests>>
            ELSE IF ~IsHtml(out.ct)
            THEN /\ response' = ErrorResponse(ThrowStatus(entry), "La risorsa non e HTML (content-type: ...).")
                 /\ pc' = "done"
                 /\ UNCHANGED <<fetched, requests>>
            ELSE IF out.kind = "bodyfail"
            THEN /\ response' = ErrorResponse(ThrowStatus(entry), "terminated")
                 /\ pc' = "done"
                 /\ UNCHANGED <<fetched, requests>>
            ELSE /\ fetched' = [kind |-> "ok", page |-> out.page,
                                finalUrl |-> ResponseUrl(url, out), status |-> Some(out.status),
                                htmlLen |-> LibHtmlLen(out.bodyLen)]
                 /\ requests' = Append(requests, PsiReq(PsiTarget(url, fetched'), key))
                 /\ pc' = "psi1"
                 /\ UNCHANGED response
    /\ UNCHANGED <<entry, key, input, url, psi, answers, attempts, norm, norm2, runs>>

\* runPageSpeed (153-173) ends; analyzeSite (197-249) builds the report and
\* the handler answers 200
AnalyzeSite_Finish(resp) ==
    /\ pc = "psi1"
    /\ entry \in LibEntries
    /\ psi' = LibRunPageSpeed(resp)
    /\ answers' = Append(answers, resp)
    /\ attempts' = Append(attempts, psi')
    /\ response' = LibReport(LibArg(entry, input), fetched, psi')
    /\ pc' = "done"
    /\ UNCHANGED <<entry, key, input, url, requests, fetched, pageAnswer, norm, norm2, runs>>

AnalyzeSite_PageSpeed == \E resp \in PsiResponses : AnalyzeSite_Finish(resp)

Next ==
    \/ POST_Start
    \/ POST_Fetched
    \/ RunPageSpeed_First
    \/ RunPageSpeed_Second
    \/ POST_Strict_Start
    \/ POST_Plain_Start
    \/ FetchHtml_Responds
    \/ AnalyzeSite_PageSpeed

Spec == Init /\ [][Next]_vars

----------------------------------------------------------------------------
(* Specification of analyzeSite's report over every combination of         *)
(* findings: the analysis starts where the page has been fetched and the   *)
(* PageSpeed request is in flight.                                         *)

\* most <h1> elements of a generated page
MaxH1 == 2

\* title and description lengths around the thresholds of seoChecks
TitleLens == {0, 24, 25, 65, 66}
DescLens == {0, 69, 70, 170, 171}

AllPages ==
    [tLen : TitleLens, dLen : DescLens, h1 : 0..MaxH1, canonical : BOOLEAN,
     noindex : BOOLEAN, og : BOOLEAN, trust : SUBSET TrustCategories, cta : BOOLEAN,
     markers : {{}}]

\* answers of the PageSpeed API: category scores at and around the ends of
\* [0,1] (in thousandths), missing categories, and failures
ReportAnswers ==
    {PsiJson(Some(0), Some(0)), PsiJson(Some(1000), Some(1000)), PsiJson(Some(995), Some(4)),
     PsiJson(Some(504), None), PsiJson(None, Some(500)),
     PsiHttpError(400, MsgKeyInvalid), PsiNetError(MsgFetchFailed)}

ReportUrl == <<"https", ":", "/", "/", "example.com", "/">>

InitReport ==
    /\ entry = "plain"
    /\ key = ""
    /\ input = <<"example.com">>
    /\ pc = "psi1"
    /\ url = ReportUrl
    /\ requests = <<PageReq(ReportUrl), PsiReq(ReportUrl, "")>>
    /\ \E page \in AllPages :
         /\ pageAnswer = [kind |-> "ok", status |-> 200, ct |-> "text/html; charset=utf-8",
                          redirected |-> FALSE, page |-> page, bodyLen |-> 1000]
         /\ fetched = [kind |-> "ok", page |-> page, finalUrl |-> ReportUrl, status |-> Some(200),
                       htmlLen |-> LibHtmlLen(1000)]
    /\ psi = NoPsi
    /\ response = NoResponse
    /\ answers = <<>>
    /\ attempts = <<>>
    /\ norm = NoNorm
    /\ norm2 = NoNorm
    /\ runs = NoRuns

AnalyzeSite_Report == \E resp \in ReportAnswers : AnalyzeSite_Finish(resp)

NextReport == AnalyzeSite_Report

SpecReport == InitReport /\ [][NextReport]_vars

----------------------------------------------------------------------------
(* Claims about the normalizers (SpecNorm) *)

\* the host of an input as a reader takes it: blanks and an optional
\* http:// or https:// prefix (any letter case) removed, first name, lowercased
ClaimedHost(in) ==
    LET s == Trim(in)
        r == IF HasHttpPrefix(s) THEN SubSeq(s, 5, Len(s)) ELSE s
    IN IF r = <<>> \/ r[1] \in Delims THEN "" ELSE Lower(r[1])

ValidationErrors == {"URL non valido. Esempio: https://miosito.com", "Dominio non consentito."}

C8_PrependAndIdempotent ==
    /\ (norm.fn = "lib" /\ norm.ok /\ ~HasHttpPrefix(Trim(input)))
          => norm.url = Serialize(ParseUrl(Https \o Trim(input)))
    /\ (norm.fn = "route" /\ norm.ok /\ ~HasHttpPrefix(Trim(input)))
          => norm.url = Https \o Trim(input)
    /\ pc = "twice" => norm2 = norm

\* a scheme-less input with capitals and a path was normalized twice by the library
C8_Witness ==
    /\ pc = "twice"
    /\ norm.fn = "lib"
    /\ input = <<SP, "Example.COM", "/", "a">>
    /\ norm2.url = <<"https", ":", "/", "/", "example.com", "/", "a">>

----------------------------------------------------------------------------
(* Claims about the request pipeline (Spec) *)

PsiRequests == SelectSeq(requests, LAMBDA r : r.kind = "psi")
PageRequests == SelectSeq(requests, LAMBDA r : r.kind = "page")

\* the server's answer is a failure of the request
AnswerFailed(a) == ~a.net \/ ~a.httpOk \/ a.body = "unparsable"

\* the server refused the key: an error answer with an authentication message
AuthRefusal(a) ==
    /\ a.net /\ ~a.httpOk /\ a.body = "json"
    /\ a.msg \in {MsgKeyInvalid, MsgForbidden, MsgNotAuthorized}

\* C1: in the route handler a second PageSpeed request is issued if and only
\* if the first attempt failed, a non-empty key was supplied and the failure
\* message is an authentication message; the second request carries no key;
\* there are never more than two requests, and at most one without a key
C1_RetryExactlyOnAuthFailure ==
    entry = "route" =>
        /\ Len(PsiRequests) <= 2
        /\ key = "" => Len(PsiRequests) <= 1
        /\ Len(PsiRequests) >= 1 => PsiRequests[1].key = key
        /\ Len(PsiRequests) = 2 => PsiRequests[2].key = ""
        /\ answers # <<>> =>
             (Len(PsiRequests) = 2 <=> (key # "" /\ AuthRefusal(answers[1])))

\* the key was refused, the retry was made without it and it failed too
C1_Witness ==
    /\ entry = "route"
    /\ pc = "done"
    /\ Len(PsiRequests) = 2
    /\ PsiRequests[1].key = "AIzaKEY"
    /\ PsiRequests[2].key = ""
    /\ answers = <<PsiHttpError(400, MsgKeyInvalid), PsiHttpError(429, MsgQuota)>>

\* C2: in the route handler, when the keyed attempt is refused and the
\* key-less retry succeeds, the report's PageSpeed scores and metrics are the
\* retry answer's and its pagespeed object has no error
C2_SuccessfulRetryIsUsed ==
    (/\ entry = "route"
     /\ pc = "done"
     /\ Len(answers) = 2
     /\ ~AnswerFailed(answers[2]))
    => /\ response.kind = "report"
       /\ response.pagespeed.scores =
            [perf |-> IF answers[2].perf = None THEN None
                      ELSE Some(RoundPercent(Val(answers[2].perf))),
             seo |-> IF answers[2].seo = None THEN None
                     ELSE Some(RoundPercent(Val(answers[2].seo)))]
       /\ response.scores.performance = response.pagespeed.scores.perf
       /\ response.scores.seo = response.pagespeed.scores.seo
       /\ response.pagespeed.lcpMs = answers[2].lcp
       /\ ~response.pagespeed.hasError
       /\ response.pagespeed.error = <<>>

\* a refused key, then a successful key-less answer with scores 0.905 and 1
C2_Witness ==
    /\ entry = "route"
    /\ pc = "done"
    /\ answers = <<PsiHttpError(403, MsgForbidden), PsiJson(Some(905), Some(1000))>>
    /\ response.scores.performance = Some(91)
    /\ response.scores.seo = Some(100)

\* C3 (as claimed): in analyzeSite, when the PageSpeed request is refused for
\* its key and a key is configured, a second request without the key is made
C3_LibRetriesWithoutKey ==
    (/\ entry \in LibEntries
     /\ pc = "done"
     /\ key # ""
     /\ answers # <<>>
     /\ AuthRefusal(answers[1]))
    => (Len(PsiRequests) = 2 /\ PsiRequests[2].key = "")

\* C4: when normalization and the page fetch succeeded, a PageSpeed failure
\* that is final never aborts the analysis: the handler answers 200 with a
\* report whose pagespeed object has a non-empty error
C4_PageSpeedFailureIsSoft ==
    (/\ pc = "done"
     /\ fetched.kind = "ok"
     /\ answers # <<>>
     /\ \A i \in 1..Len(answers) : AnswerFailed(answers[i]))
    => /\ response.kind = "report"
       /\ response.status = 200
       /\ response.pagespeed.hasError
       /\ response.pagespeed.error # <<>>

\* analyzeSite finished after a network error of the PageSpeed call that had no message
C4_Witness ==
    /\ pc = "done"
    /\ entry = "plain"
    /\ fetched.kind = "ok"
    /\ answers = <<PsiNetError(<<>>)>>
    /\ response.kind = "report"
    /\ response.pagespeed.error = <<"TypeError">>

\* the performance API could not be reached by any request of the analysis
Unreachable == answers # <<>> /\ \A i \in 1..Len(answers) : ~answers[i].net

\* C5 (as claimed): in every report produced while the performance API is
\* unreachable, scores.total is defined and is round(0.40 seo + 0.35 ux +
\* 0.25 trust) of the report's own scores, and pagespeed.error is non-empty
C5_TotalDefinedWhenUnreachable ==
    (pc = "done" /\ response.kind = "report" /\ Unreachable)
    => /\ response.scores.total # None
       /\ response.scores.seo # None
       /\ Val(response.scores.total) =
            (40 * Val(response.scores.seo) + 35 * Val(response.scores.ux)
               + 25 * Val(response.scores.trust) + 50) \div 100
       /\ response.pagespeed.hasError
       /\ response.pagespeed.error # <<>>

\* C6 (as claimed): no entry point issues the page GET to localhost,
\* 127.0.0.1 or 0.0.0.0
C6_NoFetchOfLoopback ==
    \A i \in 1..Len(requests) :
        requests[i].kind = "page" => requests[i].host \notin BlockedHosts

----------------------------------------------------------------------------
(* Claims about analyzeSite's report (SpecReport) *)

InRange(o) == o = None \/ (Val(o) >= 0 /\ Val(o) <= 100)

\* C9: every composite score of a report (total, seo, ux, trust, and
\* performance when present) lies in [0,100], for every combination of
\* findings and every PageSpeed outcome with category scores in [0,1]
C9_ScoresWithinRange ==
    (pc = "done" /\ response.kind = "report")
    => /\ response.scores.total # None /\ InRange(response.scores.total)
       /\ response.scores.seo # None /\ InRange(response.scores.seo)
       /\ response.scores.ux # None /\ InRange(response.scores.ux)
       /\ response.scores.trust # None /\ InRange(response.scores.trust)
       /\ InRange(response.scores.performance)

\* the best page with perfect category scores: every score is 100
C9_Witness ==
    /\ pc = "done"
    /\ response.kind = "report"
    /\ answers = <<PsiJson(Some(1000), Some(1000))>>
    /\ response.scores = [total |-> Some(100), performance |-> Some(100), seo |-> Some(100),
                          ux |-> Some(100), trust |-> Some(100)]

\* the rules in discovery order: SEO rules, then trust rules, then the UX rule
RuleOrder ==
    <<"seo.title.missing", "seo.title.length", "seo.metadesc.missing", "seo.metadesc.length",
      "seo.h1.missing", "seo.h1.multiple", "seo.canonical.missing", "seo.noindex",
      "seo.opengraph.incomplete",
      "trust.contact.missing", "trust.shipping.missing", "trust.returns.missing",
      "trust.privacy.missing", "trust.terms.missing",
      "ux.cta.unclear">>

RulePos(k) == CHOOSE i \in 1..Len(RuleOrder) : RuleOrder[i] = k

ClaimedRank(sev) ==
    CASE sev = "critical" -> 0 [] sev = "high" -> 1 [] sev = "medium" -> 2 [] OTHER -> 3

\* C10: the issues of a report are in non-decreasing severity rank (critical <
\* high < medium < low) and issues of equal severity are in discovery order
C10_IssuesSortedStable ==
    (pc = "done" /\ response.kind = "report")
    => \A i, j \in 1..Len(response.issues) :
         i < j =>
           LET a == response.issues[i]
               b == response.issues[j]
           IN /\ ClaimedRank(a.severity) <= ClaimedRank(b.severity)
              /\ ClaimedRank(a.severity) = ClaimedRank(b.severity)
                   => RulePos(a.key) < RulePos(b.key)

\* a report with a critical issue found after high and low ones, and with
\* high issues of the SEO and trust groups and medium issues of all three
C10_Witness ==
    /\ pc = "done"
    /\ response.kind = "report"
    /\ [i \in 1..Len(response.issues) |-> response.issues[i].key] =
         <<"seo.noindex",
           "seo.title.missing", "seo.h1.missing", "trust.contact.missing",
           "seo.metadesc.length", "trust.privacy.missing", "ux.cta.unclear",
           "seo.canonical.missing", "trust.terms.missing">>

\* the report is analyzeSite's and has been returned
LibReported == pc = "done" /\ response.kind = "report" /\ response.by = "lib"

HasKey(k) == \E i \in 1..Len(response.issues) : response.issues[i].key = k

HasIssue(k, sev) ==
    \E i \in 1..Len(response.issues) :
        response.issues[i].key = k /\ response.issues[i].severity = sev

TrustKey(c) ==
    CASE c = "contact" -> "trust.contact.missing"
      [] c = "shipping" -> "trust.shipping.missing"
      [] c = "returns" -> "trust.returns.missing"
      [] c = "privacy" -> "trust.privacy.missing"
      [] c = "terms" -> "trust.terms.missing"
      [] OTHER -> "trust.faq.missing"

\* the trust categories a rule of the issue table names
RuledTrust == {"contact", "shipping", "returns", "privacy", "terms"}

C16_TrustAndUxScores ==
    LibReported
    => LET t == response.trust
           high == Cardinality({"contact", "shipping", "returns"} \ t)
           privacy == IF "privacy" \in t THEN 0 ELSE 1
           terms == IF "terms" \in t THEN 0 ELSE 1
       IN /\ response.scores.trust = Some(Max(0, 100 - 15 * high - 8 * privacy - 3 * terms))
          /\ response.scores.ux = Some(IF fetched.page.cta THEN 100 ELSE 92)
          /\ t = {} => response.scores.trust = Some(44)

C16_Witness ==
    /\ LibReported
    /\ response.trust = {}
    /\ ~fetched.page.cta
    /\ fetched.page.noindex /\ fetched.page.tLen = 0
    /\ response.scores.trust = Some(44)
    /\ response.scores.ux = Some(92)

\* the rules of the issue table, SEO and UX: key, severity
SeoUxRules ==
    {<<"seo.title.missing", "high">>, <<"seo.title.length", "medium">>,
     <<"seo.metadesc.missing", "high">>, <<"seo.metadesc.length", "medium">>,
     <<"seo.h1.missing", "high">>, <<"seo.h1.multiple", "low">>,
     <<"seo.canonical.missing", "low">>, <<"seo.noindex", "critical">>,
     <<"seo.opengraph.incomplete", "low">>, <<"ux.cta.unclear", "medium">>}

\* the condition of a rule as the issue table words it
TableCondition(k, page) ==
    CASE k = "seo.title.missing" -> page.tLen = 0
      [] k = "seo.title.length" -> page.tLen # 0 /\ (page.tLen < 25 \/ page.tLen > 65)
      [] k = "seo.metadesc.missing" -> page.dLen = 0
      [] k = "seo.metadesc.length" -> page.dLen < 70 \/ page.dLen > 170
      [] k = "seo.h1.missing" -> page.h1 = 0
      [] k = "seo.h1.multiple" -> page.h1 > 1
      [] k = "seo.canonical.missing" -> ~page.canonical
      [] k = "seo.noindex" -> page.noindex
      [] k = "seo.opengraph.incomplete" -> ~page.og
      [] OTHER -> ~page.cta

\* the condition of a rule as evaluated: the description length rule applies
\* to a non-empty description only
AmendedCondition(k, page) ==
    IF k = "seo.metadesc.length"
    THEN page.dLen # 0 /\ (page.dLen < 70 \/ page.dLen > 170)
    ELSE TableCondition(k, page)

\* C17 (as claimed): for every combination of findings each rule's issue is
\* in the report if and only if the rule's condition holds, the description
\* length rule being "description length outside [70,170]"
C17_RulesIndependent ==
    LibReported
    => \A r \in SeoUxRules : HasIssue(r[1], r[2]) <=> TableCondition(r[1], fetched.page)

\* C17 (amended): for every combination of findings each rule's issue, with
\* the rule's key and severity, is in the report if and only if the rule's
\* condition holds, the description length rule being "non-empty description
\* with length outside [70,170]"; no key appears twice
C17_RulesByCondition ==
    LibReported
    => /\ \A r \in SeoUxRules :
            /\ HasIssue(r[1], r[2]) <=> AmendedCondition(r[1], fetched.page)
            /\ HasKey(r[1]) => HasIssue(r[1], r[2])
       /\ \A i, j \in 1..Len(response.issues) :
            response.issues[i].key = response.issues[j].key => i = j

\* an empty description next to a too-short title: the missing-description
\* issue is there, the description-length issue is not, the title-length one is
C17_Witness ==
    /\ LibReported
    /\ fetched.page.dLen = 0
    /\ fetched.page.tLen = 24
    /\ HasIssue("seo.metadesc.missing", "high")
    /\ ~HasKey("seo.metadesc.length")
    /\ HasIssue("seo.title.length", "medium")
    /\ HasIssue("seo.noindex", "critical")

\* no rule of the issue table applies to the page
NoRuleApplies(page) ==
    /\ page.tLen >= 25 /\ page.tLen <= 65
    /\ page.dLen >= 70 /\ page.dLen <= 170
    /\ page.h1 = 1
    /\ page.canonical /\ ~page.noindex /\ page.og
    /\ RuledTrust \subseteq page.trust
    /\ page.cta

\* C18: when no rule condition holds the report has no issues and no quick
\* wins, and its trust and ux scores are both 100
C18_CleanPageCleanReport ==
    (LibReported /\ NoRuleApplies(fetched.page))
    => /\ response.issues = <<>>
       /\ response.quickWins = <<>>
       /\ response.scores.trust = Some(100)
       /\ response.scores.ux = Some(100)

C18_Witness ==
    /\ LibReported
    /\ NoRuleApplies(fetched.page)
    /\ fetched.page.tLen = 65 /\ fetched.page.dLen = 70
    /\ response.issues = <<>>
    /\ response.scores.ux = Some(100)

\* the answer of the PageSpeed API to analyzeSite's request
AuditAnswer == answers[Len(answers)]

\* the audit answered and its answer carries a score for the category
AuditGavePerformance == ~AnswerFailed(AuditAnswer) /\ AuditAnswer.perf # None
AuditGaveSeo == ~AnswerFailed(AuditAnswer) /\ AuditAnswer.seo # None

\* C19 (as claimed): scores.total is round(0.35 performance + 0.30 ux +
\* 0.20 seo + 0.15 trust) exactly when the audit provided a performance
\* score, and round(0.40 seo + 0.35 ux + 0.25 trust) of the report's own
\* scores in every other case
C19_TotalByPerformanceAvailability ==
    LibReported
    => LET sc == response.scores
           seo == Val(sc.seo)
           ux == Val(sc.ux)
           trust == Val(sc.trust)
       IN IF AuditGavePerformance
          THEN /\ sc.performance = Some(RoundPercent(Val(AuditAnswer.perf)))
               /\ sc.total = Some((35 * Val(sc.performance) + 30 * ux + 20 * seo + 15 * trust + 50) \div 100)
          ELSE sc.total = Some((40 * seo + 35 * ux + 25 * trust + 50) \div 100)

SeoKeys ==
    {"seo.title.missing", "seo.title.length", "seo.metadesc.missing", "seo.metadesc.length",
     "seo.h1.missing", "seo.h1.multiple", "seo.canonical.missing", "seo.noindex",
     "seo.opengraph.incomplete"}

\* the penalty formula applied to the SEO issues of the report
SeoPenaltyScore ==
    ScoreFromIssues(SelectSeq(response.issues, LAMBDA i : i.key \in SeoKeys))

\* C20 (as claimed): scores.seo is the audit's SEO category score as an
\* integer percent whenever the audit provided one, and the penalty formula
\* applied to the SEO issues whenever it did not (the call failed, or the
\* answer has no SEO category score)
C20_SeoPrefersAudit ==
    LibReported
    => response.scores.seo =
         IF AuditGaveSeo THEN Some(RoundPercent(Val(AuditAnswer.seo)))
         ELSE Some(SeoPenaltyScore)

----------------------------------------------------------------------------
(* Claims about quick wins and the page fetch (Spec) *)

\* q can be obtained from f by deleting elements
RECURSIVE IsSubsequence(_, _)
IsSubsequence(q, f) ==
    IF q = <<>> THEN TRUE
    ELSE IF f = <<>> THEN FALSE
    ELSE IF Head(q) = Head(f) THEN IsSubsequence(Tail(q), Tail(f))
    ELSE IsSubsequence(q, Tail(f))

LowFixes(issues) == {issues[i].fix : i \in {j \in 1..Len(issues) : issues[j].severity = "low"}}

\* C11 (as claimed): in every report, quickWins is a subsequence of the
\* remediation texts of the report's issues in the issues' order, has at most
\* 7 entries and holds no remediation text of a low-severity issue
C11_QuickWinsProjectIssues ==
    (pc = "done" /\ response.kind = "report")
    => /\ Len(response.quickWins) <= 7
       /\ IsSubsequence(response.quickWins, Fixes(response.issues))
       /\ \A i \in 1..Len(response.quickWins) :
            response.quickWins[i] \notin LowFixes(response.issues)

\* content types that do not contain text/html
NonHtmlTypes == {"application/json", ""}

\* the page server answered with headers (the body may still fail)
PageAnswered == pageAnswer.kind \in {"ok", "bodyfail"}

\* C12: when the content-type of the page response does not contain
\* text/html, analyzeSite fails with the content-type error: the handler
\* answers with that error, no report exists and no PageSpeed request is made
C12_NonHtmlIsFatal ==
    (entry \in LibEntries /\ PageAnswered /\ pageAnswer.ct \in NonHtmlTypes)
    => /\ pc = "done"
       /\ response.kind = "error"
       /\ response.error = "La risorsa non e HTML (content-type: ...)."
       /\ response.status = ThrowStatus(entry)
       /\ PsiRequests = <<>>
       /\ psi = NoPsi /\ answers = <<>>

C12_Witness ==
    /\ entry = "plain"
    /\ pageAnswer.kind = "ok" /\ pageAnswer.ct = "application/json" /\ pageAnswer.status = 200
    /\ pageAnswer.page = GoodPage
    /\ pc = "done"
    /\ response.kind = "error"
    /\ Len(requests) = 1

\* C13 (as claimed): when the page GET fails with a network error the
\* analysis still ends in a report, built from empty markup: platform
\* unknown, no trust link found, the issues of an empty page
C13_FetchFailureDegrades ==
    (pc = "done" /\ pageAnswer.kind = "neterr")
    => /\ response.kind = "report"
       /\ response.platform = UnknownPlatform
       /\ response.trust = {}
       /\ response.httpStatus = None

\* C14 (as claimed): a PageSpeed request is made only after the page GET was
\* answered, and whenever the answer came from another URL than the one asked
\* for (redirects followed) the url it audits is that final URL
C14_PageSpeedAuditsFinalUrl ==
    \A i \in 1..Len(requests) :
        requests[i].kind = "psi"
        => /\ pageAnswer # NoAnswer
           /\ \E j \in 1..(i - 1) : requests[j].kind = "page"
           /\ (PageAnswered /\ pageAnswer.redirected) => requests[i].url = RedirectTarget

\* C21 (as claimed): in every analysis path the markup the extractors run on
\* is no longer than the size ceiling
C21_ExtractionWithinCeiling ==
    fetched.kind = "ok" => fetched.htmlLen <= BodyCeiling

----------------------------------------------------------------------------
(* Claims about the handlers' responses (Spec) *)

MissingInput == Trim(input) = <<>>

\* the conditions the delegating handlers' analysis treats as fatal
LibFatal ==
    /\ entry \in LibEntries
    /\ \/ ClaimedHost(input) \in BlockedHosts
       \/ PageAnswered /\ pageAnswer.ct \in NonHtmlTypes
       \/ pageAnswer.kind \in {"neterr", "bodyfail"}

ReportFields ==
    {"input", "finalUrl", "httpStatus", "platform", "scores", "pagespeed", "trust",
     "issues", "quickWins"}

C25_BothFailReportsFirst ==
    (entry = "route" /\ pc = "done" /\ Len(attempts) = 2 /\ ~attempts[2].ok)
    => /\ ~attempts[1].ok
       /\ psi = attempts[1]
       /\ response.kind = "report"
       /\ response.pagespeed.hasError
       /\ response.pagespeed.error = attempts[1].error
       /\ attempts[2].error # attempts[1].error
            => response.pagespeed.error # attempts[2].error

\* the key is refused, then the key-less retry cannot reach the API
C25_Witness ==
    /\ entry = "route"
    /\ pc = "done"
    /\ key # ""
    /\ Len(attempts) = 2
    /\ answers[1] = PsiHttpError(400, MsgKeyInvalid)
    /\ ~answers[2].net
    /\ attempts[2].error # attempts[1].error
    /\ response.pagespeed.error = MsgKeyInvalid

\* C24: in every report of analyzeSite no two issues have the same key
C24_IssueKeysUnique ==
    LibReported
    => \A i, j \in 1..Len(response.issues) :
         i # j => response.issues[i].key # response.issues[j].key

\* the report with the most issues: twelve rules fire at once, one issue each
C24_Witness ==
    /\ LibReported
    /\ response.trust = {}
    /\ Len(response.issues) = 12
    /\ Cardinality({response.issues[i].key : i \in 1..Len(response.issues)}) = 12

----------------------------------------------------------------------------
(* Concurrent analyses: several requests to the plain handler are served   *)
(* together; each activation of analyzeSite is suspended at its two        *)
(* awaits (the page GET and the PageSpeed request) and any other           *)
(* activation may run in between.  runs[i] holds what request i was given  *)
(* (input, pageAnswer, psiAnswer) and the locals of its activation.        *)

\* requests served together
NumAnalyses == 2

Ids == 1..NumAnalyses

ConcInputs == {<<"example.com">>, <<"shop.example", "/", "a">>, <<"localhost">>}

ConcOutcomes ==
    {[kind |-> "neterr", status |-> 0, ct |-> "", redirected |-> FALSE, page |-> EmptyPage,
      bodyLen |-> 0],
     [kind |-> "ok", status |-> 200, ct |-> "text/html; charset=utf-8", redirected |-> TRUE,
      page |-> GoodPage, bodyLen |-> 1000],
     [kind |-> "ok", status |-> 404, ct |-> "text/html; charset=utf-8", redirected |-> FALSE,
      page |-> MixedPage, bodyLen |-> 1000]}

ConcAnswers == {PsiJson(Some(905), Some(1000)), PsiHttpError(429, MsgQuota)}

\* fetchHtml (28-45): what it returns, or the error it throws
FetchHtml(u, out) ==
    IF out.kind = "neterr" THEN [ok |-> FALSE, err |-> "fetch failed", fetched |-> NoFetch]
    ELSE IF ~IsHtml(out.ct)
    THEN [ok |-> FALSE, err |-> "La risorsa non e HTML (content-type: ...).", fetched |-> NoFetch]
    ELSE IF out.kind = "bodyfail" THEN [ok |-> FALSE, err |-> "terminated", fetched |-> NoFetch]
    ELSE [ok |-> TRUE, err |-> "",
          fetched |-> [kind |-> "ok", page |-> out.page, finalUrl |-> ResponseUrl(u, out),
                       status |-> Some(out.status), htmlLen |-> LibHtmlLen(out.bodyLen)]]

\* mutant: url, fetch result and input are kept in module-level variables
\* that every activation reads, here those of the first request
Locals_Shared(rs, i) == rs[1]

\* the variables an activation of analyzeSite reads are its own (const and
\* let bindings of the function body, 175-249)
Locals(rs, i) == rs[i]

NewRun(in) ==
    [input |-> in, pageAnswer |-> NoAnswer, psiAnswer |-> NoAnswer,
     pc |-> "start", url |-> <<>>, fetched |-> NoFetch, psi |-> NoPsi, response |-> NoResponse]

InitConc ==
    /\ runs \in [Ids -> {NewRun(in) : in \in ConcInputs}]
    /\ entry = "plain"
    /\ key = ""
    /\ input = <<>>
    /\ pc = "concurrent"
    /\ url = <<>>
    /\ requests = <<>>
    /\ fetched = NoFetch
    /\ psi = NoPsi
    /\ response = NoResponse
    /\ answers = <<>>
    /\ attempts = <<>>
    /\ pageAnswer = NoAnswer
    /\ norm = NoNorm
    /\ norm2 = NoNorm

singleVars ==
    <<entry, key, input, pc, url, requests, fetched, psi, response, answers, attempts,
      pageAnswer, norm, norm2>>

\* analyzeSite (175-178) of request i: normalizeUrl, then the page GET is sent
Conc_Start(i) ==
    /\ runs[i].pc = "start"
    /\ LET me == Locals(runs, i)
           n == LibNormalizeUrl(me.input)
       IN runs' = IF ~n.ok
                  THEN [runs EXCEPT ![i].response = ErrorResponse(ThrowStatus(entry), n.err),
                                    ![i].pc = "done"]
                  ELSE [runs EXCEPT ![i].url = n.url, ![i].pc = "fetching"]
    /\ UNCHANGED singleVars

\* the page GET of request i is answered: fetchHtml returns or throws,
\* analyzeSite extracts and sends the PageSpeed request (178-199)
Conc_Fetched(i) ==
    /\ runs[i].pc = "fetching"
    /\ \E out \in ConcOutcomes :
         LET me == Locals(runs, i)
             f == FetchHtml(me.url, out)
         IN runs' = IF ~f.ok
                    THEN [runs EXCEPT ![i].pageAnswer = out,
                                      ![i].response = ErrorResponse(ThrowStatus(entry), f.err),
                                      ![i].pc = "done"]
                    ELSE [runs EXCEPT ![i].pageAnswer = out,
                                      ![i].fetched = f.fetched,
                                      ![i].pc = "psi1"]
    /\ UNCHANGED singleVars

\* the PageSpeed request of request i is answered: analyzeSite builds the
\* report (197-249) and the handler answers
Conc_Finish(i) ==
    /\ runs[i].pc = "psi1"
    /\ \E resp \in ConcAnswers :
         LET me == Locals(runs, i)
             p == LibRunPageSpeed(resp)
         IN runs' = [runs EXCEPT ![i].psiAnswer = resp,
                                 ![i].psi = p,
                                 ![i].response = LibReport(me.input, me.fetched, p),
                                 ![i].pc = "done"]
    /\ UNCHANGED singleVars

NextConc ==
    \/ \E i \in Ids : Conc_Start(i)
    \/ \E i \in Ids : Conc_Fetched(i)
    \/ \E i \in Ids : Conc_Finish(i)

SpecConc == InitConc /\ [][NextConc]_vars

----------------------------------------------------------------------------
(* Claims about concurrent analyses (SpecConc) *)

\* the answer a request gets when it is served alone, given its input and
\* the answers of the page server and of the PageSpeed API
AloneResponse(in, out, resp) ==
    LET n == LibNormalizeUrl(in) IN
    IF ~n.ok THEN ErrorResponse(400, n.err)
    ELSE IF out = NoAnswer THEN NoResponse
    ELSE LET f == FetchHtml(n.url, out) IN
         IF ~f.ok THEN ErrorResponse(400, f.err)
         ELSE IF resp = NoAnswer THEN NoResponse
         ELSE LibReport(in, f.fetched, LibRunPageSpeed(resp))

=============================================================================
